---- MODULE Spec2Model ----
(***************************************************************************)
(* Model of metricflow_semantics/sql/sql_table.py: the SqlTable value      *)
(* type, its three constructors (direct, from_string, from_node_relation), *)
(* its sql rendering and its dataclass-generated ordering.                 *)
(*                                                                         *)
(* A Python str is a sequence of one-character strings.  None and a        *)
(* missing attribute are one-element sequences whose element is not a      *)
(* character, so they differ from every str.                               *)
(***************************************************************************)
EXTENDS Integers, Sequences, FiniteSets, TLC

VARIABLES
    pc,        \* "called" -> "returned" -> "rendered" | "compared"
    call,      \* the constructor call: its name and its arguments
    self,      \* what the constructor call produced: a SqlTable or an exception
    locals,    \* from_node_relation's local variables and the return it took
    rendered,  \* self.sql, once read
    other,     \* a second SqlTable instance, the right operand of a comparison
    cmp        \* outcome of self < other and of other < self

vars == <<pc, call, self, locals, rendered, other, cmp>>

----------------------------------------------------------------------------
(* Bounds and input alphabets *)

MaxLen == 5       \* longest sql_str given to from_string
MaxNameLen == 1   \* longest field given to the direct constructor
MaxRelLen == 5    \* longest relation_name of a node relation

Alphabet == {"a", "b", "."}
RelAlphabet == {"r", "."}

Strs(alpha, n) == UNION {[1..k -> alpha] : k \in 0..n}

----------------------------------------------------------------------------
(* Python values *)

None == <<"None">>
Absent == <<"Absent">>
EmptyStr == <<>>
Dot == "."

TABLE == "table"
VIEW == "view"
SqlTableType == {TABLE, VIEW}

\* bool(x) for x a str or None
Truthy(x) == x # None /\ x # EmptyStr

\* a or b
Or(a, b) == IF Truthy(a) THEN a ELSE b

\* "." in s
HasDot(s) == \E i \in 1..Len(s) : s[i] = Dot

\* s.split(".")
RECURSIVE split(_)
split(s) ==
    IF ~HasDot(s) THEN <<s>>
    ELSE LET i == CHOOSE k \in 1..Len(s) :
                     s[k] = Dot /\ \A j \in 1..(k - 1) : s[j] # Dot
         IN <<SubSeq(s, 1, i - 1)>> \o split(SubSeq(s, i + 1, Len(s)))

\* ".".join(items)
RECURSIVE join(_)
join(items) ==
    IF Len(items) = 0 THEN EmptyStr
    ELSE IF Len(items) = 1 THEN items[1]
    ELSE items[1] \o <<Dot>> \o join(Tail(items))

----------------------------------------------------------------------------
(* SqlTable *)

ValueError == [kind |-> "ValueError"]
RuntimeError == [kind |-> "RuntimeError"]
TypeError == "TypeError"

Instance(schema_name, table_name, db_name, table_type) ==
    [kind |-> "SqlTable", schema_name |-> schema_name, table_name |-> table_name,
     db_name |-> db_name, table_type |-> table_type]

\* mutant: __post_init__ without its check
SqlTable_Unchecked(schema_name, table_name, db_name, table_type) ==
    Instance(schema_name, table_name, db_name, table_type)

\* SqlTable(...): the generated __init__ followed by __post_init__
SqlTable(schema_name, table_name, db_name, table_type) ==
    IF db_name # None /\ schema_name = None
    THEN ValueError
    ELSE Instance(schema_name, table_name, db_name, table_type)

\* mutant: db and schema taken in the wrong order for a 3-part string
from_string_Swapped(sql_str) ==
    LET sql_str_split == split(sql_str) IN
    IF Len(sql_str_split) = 2
    THEN SqlTable(sql_str_split[1], sql_str_split[2], None, TABLE)
    ELSE IF Len(sql_str_split) = 3
    THEN SqlTable(sql_str_split[1], sql_str_split[3], sql_str_split[2], TABLE)
    ELSE RuntimeError

\* mutant: a string of more than 3 segments parsed by its first three
from_string_Lenient(sql_str) ==
    LET sql_str_split == split(sql_str) IN
    IF Len(sql_str_split) = 2
    THEN SqlTable(sql_str_split[1], sql_str_split[2], None, TABLE)
    ELSE IF Len(sql_str_split) >= 3
    THEN SqlTable(sql_str_split[2], sql_str_split[3], sql_str_split[1], TABLE)
    ELSE RuntimeError

\* mutant: empty segments rejected
from_string_NonEmpty(sql_str) ==
    LET sql_str_split == split(sql_str) IN
    IF \E i \in 1..Len(sql_str_split) : sql_str_split[i] = EmptyStr
    THEN RuntimeError
    ELSE IF Len(sql_str_split) = 2
    THEN SqlTable(sql_str_split[1], sql_str_split[2], None, TABLE)
    ELSE IF Len(sql_str_split) = 3
    THEN SqlTable(sql_str_split[2], sql_str_split[3], sql_str_split[1], TABLE)
    ELSE RuntimeError

\* SqlTable.from_string
from_string(sql_str) ==
    LET sql_str_split == split(sql_str) IN
    IF Len(sql_str_split) = 2
    THEN SqlTable(sql_str_split[1], sql_str_split[2], None, TABLE)
    ELSE IF Len(sql_str_split) = 3
    THEN SqlTable(sql_str_split[2], sql_str_split[3], sql_str_split[1], TABLE)
    ELSE RuntimeError

\* getattr(node_relation, name, None)
getattr(node_relation, name) ==
    IF node_relation[name] = Absent THEN None ELSE node_relation[name]

\* "a if a is not None else b", the coalescing a mutant uses in place of "or"
Coalesce(a, b) == IF a # None THEN a ELSE b

\* mutant: fields fall through only when None, not when empty
Resolve_NotNone(node_relation) ==
    [relation_name |-> Coalesce(getattr(node_relation, "relation_name"), EmptyStr),
     schema |-> Coalesce(getattr(node_relation, "schema_name"),
                         getattr(node_relation, "schema")),
     db |-> Coalesce(Coalesce(getattr(node_relation, "database"),
                              getattr(node_relation, "db_name")),
                     getattr(node_relation, "database_name")),
     identifier |-> Coalesce(Coalesce(getattr(node_relation, "alias"),
                                      getattr(node_relation, "identifier")),
                             getattr(node_relation, "relation_name"))]

\* mutant: relation_name is not a last resort for the identifier
Resolve_NoRelationName(node_relation) ==
    [relation_name |-> Or(getattr(node_relation, "relation_name"), EmptyStr),
     schema |-> Or(getattr(node_relation, "schema_name"),
                   getattr(node_relation, "schema")),
     db |-> Or(Or(getattr(node_relation, "database"),
                  getattr(node_relation, "db_name")),
               getattr(node_relation, "database_name")),
     identifier |-> Or(getattr(node_relation, "alias"),
                       getattr(node_relation, "identifier"))]

\* from_node_relation, the reads of the descriptor's fields
Resolve(node_relation) ==
    [relation_name |-> Or(getattr(node_relation, "relation_name"), EmptyStr),
     schema |-> Or(getattr(node_relation, "schema_name"),
                   getattr(node_relation, "schema")),
     db |-> Or(Or(getattr(node_relation, "database"),
                  getattr(node_relation, "db_name")),
               getattr(node_relation, "database_name")),
     identifier |-> Or(Or(getattr(node_relation, "alias"),
                          getattr(node_relation, "identifier")),
                       getattr(node_relation, "relation_name"))]

\* mutant: the components are tried before the qualified relation_name
Branch_PartsFirst(l) ==
    IF Truthy(l.db) /\ Truthy(l.schema) /\ Truthy(l.identifier) THEN 68
    ELSE IF Truthy(l.schema) /\ Truthy(l.identifier) THEN 70
    ELSE IF HasDot(l.relation_name) THEN 64
    ELSE IF Truthy(l.identifier) THEN 72
    ELSE 75

\* from_node_relation, the source line of the return statement it takes
Branch(l) ==
    IF HasDot(l.relation_name) THEN 64
    ELSE IF Truthy(l.db) /\ Truthy(l.schema) /\ Truthy(l.identifier) THEN 68
    ELSE IF Truthy(l.schema) /\ Truthy(l.identifier) THEN 70
    ELSE IF Truthy(l.identifier) THEN 72
    ELSE 75

\* mutant: the identifier-only return passes schema and db through
Return_KeepDb(l, line) ==
    CASE line = 64 -> from_string(l.relation_name)
      [] line = 68 -> SqlTable(l.schema, l.identifier, l.db, TABLE)
      [] line = 70 -> SqlTable(l.schema, l.identifier, None, TABLE)
      [] line = 72 -> SqlTable(Or(l.schema, None), l.identifier, Or(l.db, None), TABLE)
      [] line = 75 -> from_string(l.relation_name)

\* from_node_relation, the value of the return statement at a source line
Return(l, line) ==
    CASE line = 64 -> from_string(l.relation_name)
      [] line = 68 -> SqlTable(l.schema, l.identifier, l.db, TABLE)
      [] line = 70 -> SqlTable(l.schema, l.identifier, None, TABLE)
      [] line = 72 -> SqlTable(None, l.identifier, None, TABLE)
      [] line = 75 -> from_string(l.relation_name)

\* SqlTable.from_node_relation
from_node_relation(node_relation) ==
    LET l == Resolve(node_relation) IN Return(l, Branch(l))

\* mutant: db_name left out of the rendering
sql_NoDb(t) ==
    join((IF t.schema_name # None THEN <<t.schema_name>> ELSE <<>>)
         \o <<t.table_name>>)

\* SqlTable.sql
sql(t) ==
    join((IF t.db_name # None THEN <<t.db_name>> ELSE <<>>)
         \o (IF t.schema_name # None THEN <<t.schema_name>> ELSE <<>>)
         \o <<t.table_name>>)

----------------------------------------------------------------------------
(* Ordering: @dataclass(order=True) compares the field tuples *)

\* ord(c)
Ord(c) == CASE c = "." -> 46 [] c = "a" -> 97 [] c = "b" -> 98 [] c = "r" -> 114

\* str < str
RECURSIVE StrLt(_, _)
StrLt(a, b) ==
    IF Len(b) = 0 THEN FALSE
    ELSE IF Len(a) = 0 THEN TRUE
    ELSE IF a[1] # b[1] THEN Ord(a[1]) < Ord(b[1])
    ELSE StrLt(Tail(a), Tail(b))

\* x < y for two Optional[str]: NoneType defines no ordering
OptLt(x, y) ==
    IF x = None \/ y = None THEN TypeError
    ELSE IF StrLt(x, y) THEN "True" ELSE "False"

\* SqlTable.__lt__: tuple comparison, the first unequal pair of items decides
Lt(a, b) ==
    IF a.schema_name # b.schema_name THEN OptLt(a.schema_name, b.schema_name)
    ELSE IF a.table_name # b.table_name THEN OptLt(a.table_name, b.table_name)
    ELSE IF a.db_name # b.db_name THEN OptLt(a.db_name, b.db_name)
    ELSE IF a.table_type # b.table_type THEN TypeError  \* Enum defines no ordering
    ELSE "False"

----------------------------------------------------------------------------
(* Inputs *)

Names == Strs(Alphabet, MaxNameLen)
OptNames == Names \cup {None}

CtorCalls ==
    {[fn |-> "SqlTable", schema_name |-> s, table_name |-> t, db_name |-> d,
      table_type |-> ty] : s \in OptNames, t \in Names, d \in OptNames,
                           ty \in SqlTableType}

StringCalls == {[fn |-> "from_string", sql_str |-> s] : s \in Strs(Alphabet, MaxLen)}

Fields == {"relation_name", "schema_name", "schema", "database", "db_name",
           "database_name", "alias", "identifier"}

\* the string a field other than relation_name carries when it is non-empty
FieldStr(f) ==
    CASE f = "schema_name" -> <<"a">>
      [] f = "schema" -> <<"b">>
      [] f = "database" -> <<"a">>
      [] f = "db_name" -> <<"b">>
      [] f = "database_name" -> <<"a", "b">>
      [] f = "alias" -> <<"a">>
      [] f = "identifier" -> <<"b">>

FieldValues(f) ==
    IF f = "relation_name"
    THEN {Absent, None} \cup Strs(RelAlphabet, MaxRelLen)
    ELSE {Absent, EmptyStr, FieldStr(f)}

NodeRelations ==
    [relation_name : FieldValues("relation_name"),
     schema_name : FieldValues("schema_name"),
     schema : FieldValues("schema"),
     database : FieldValues("database"),
     db_name : FieldValues("db_name"),
     database_name : FieldValues("database_name"),
     alias : FieldValues("alias"),
     identifier : FieldValues("identifier")]

NodeCalls == {[fn |-> "from_node_relation", node_relation |-> n] : n \in NodeRelations}

NoTable == [kind |-> "none"]
NoLocals == [relation_name |-> None, schema |-> None, db |-> None,
             identifier |-> None, line |-> 0]
NoCmp == [lt |-> "none", gt |-> "none"]

\* the SqlTable instances the direct constructor builds from Names
Instances == {SqlTable(c.schema_name, c.table_name, c.db_name, c.table_type) :
                 c \in CtorCalls} \ {ValueError}

----------------------------------------------------------------------------
(* State machine *)

InitCommon ==
    /\ pc = "called"
    /\ self = NoTable
    /\ locals = NoLocals
    /\ rendered = None
    /\ cmp = NoCmp

Init ==
    /\ InitCommon
    /\ call \in CtorCalls \cup StringCalls \cup NodeCalls
    /\ other = NoTable

Construct ==
    /\ pc = "called"
    /\ call.fn = "SqlTable"
    /\ self' = SqlTable(call.schema_name, call.table_name, call.db_name, call.table_type)
    /\ pc' = "returned"
    /\ UNCHANGED <<call, locals, rendered, other, cmp>>

FromString ==
    /\ pc = "called"
    /\ call.fn = "from_string"
    /\ self' = from_string(call.sql_str)
    /\ pc' = "returned"
    /\ UNCHANGED <<call, locals, rendered, other, cmp>>

FromNodeRelation ==
    /\ pc = "called"
    /\ call.fn = "from_node_relation"
    /\ LET l == Resolve(call.node_relation) IN
         /\ locals' = [relation_name |-> l.relation_name, schema |-> l.schema,
                       db |-> l.db, identifier |-> l.identifier, line |-> Branch(l)]
    /\ self' = from_node_relation(call.node_relation)
    /\ pc' = "returned"
    /\ UNCHANGED <<call, rendered, other, cmp>>

Sql ==
    /\ pc = "returned"
    /\ self.kind = "SqlTable"
    /\ rendered' = sql(self)
    /\ pc' = "rendered"
    /\ UNCHANGED <<call, self, locals, other, cmp>>

Next == Construct \/ FromString \/ FromNodeRelation \/ Sql

Spec == Init /\ [][Next]_vars

\* Two instances and their comparison
InitOrder ==
    /\ InitCommon
    /\ call \in CtorCalls
    /\ other \in Instances

Compare ==
    /\ pc = "returned"
    /\ self.kind = "SqlTable"
    /\ other # NoTable
    /\ cmp' = [lt |-> Lt(self, other), gt |-> Lt(other, self)]
    /\ pc' = "compared"
    /\ UNCHANGED <<call, self, locals, rendered, other>>

NextOrder == Construct \/ Compare

SpecOrder == InitOrder /\ [][NextOrder]_vars

----------------------------------------------------------------------------
(* Vocabulary of the properties *)

Returned(fn) == pc # "called" /\ call.fn = fn

\* number of "." in s
NDots(s) == Cardinality({i \in 1..Len(s) : s[i] = Dot})

\* no segment of s between two "." (or an end of s) is empty
NonEmptySegments(s) ==
    /\ Len(s) > 0
    /\ s[1] # Dot
    /\ s[Len(s)] # Dot
    /\ \A i \in 1..(Len(s) - 1) : ~(s[i] = Dot /\ s[i + 1] = Dot)

\* s is 2 or 3 non-empty dot-free segments joined by "."
ValidDotted(s) == NDots(s) \in {1, 2} /\ NonEmptySegments(s)

\* what an absent, null or empty field of a descriptor may hold
Falsy == {Absent, None, EmptyStr}

NonEmpty(x) == x \notin Falsy

\* the first non-empty item of a sequence of field values, None if there is none
FirstNonEmpty(items) ==
    IF \E i \in 1..Len(items) : NonEmpty(items[i])
    THEN items[CHOOSE i \in 1..Len(items) :
                   NonEmpty(items[i]) /\ \A j \in 1..(i - 1) : ~NonEmpty(items[j])]
    ELSE None

\* two resolved values agree, an empty one counting as an absent one
SameValue(x, y) == (NonEmpty(x) \/ NonEmpty(y)) => x = y

\* the descriptor's relation_name as a string, empty when absent or null
RelationName(n) ==
    IF n.relation_name \in {Absent, None} THEN EmptyStr ELSE n.relation_name

\* an optional field followed by its "." separator, nothing when absent
Qualifier(x) == IF x = None THEN EmptyStr ELSE x \o <<Dot>>

----------------------------------------------------------------------------
(* Properties *)

\* C1: for every string s of exactly 2 or 3 non-empty dot-free segments joined
\* by ".", from_string(s) succeeds and from_string(s).sql equals s.
C1_RoundTrip ==
    (call.fn = "from_string" /\ ValidDotted(call.sql_str)) =>
        /\ pc # "called" => self.kind = "SqlTable"
        /\ pc = "rendered" => rendered = call.sql_str

C1_Witness ==
    /\ pc = "rendered"
    /\ call.fn = "from_string"
    /\ call.sql_str = <<"a", ".", "b", ".", "a">>
    /\ rendered = call.sql_str

\* C2: direct construction fails with ValueError exactly when db_name is present
\* and schema_name is absent, and otherwise builds the instance with the fields
\* as given; every SqlTable that exists, however built, has a schema_name
\* whenever it has a db_name.
C2_Qualification ==
    /\ Returned("SqlTable") =>
         IF call.db_name # None /\ call.schema_name = None
         THEN self = ValueError
         ELSE self = Instance(call.schema_name, call.table_name, call.db_name,
                              call.table_type)
    /\ self.kind = "SqlTable" => (self.db_name # None => self.schema_name # None)

C2_Witness ==
    /\ Returned("SqlTable")
    /\ call.db_name = <<"a">>
    /\ call.schema_name = None
    /\ self = ValueError

\* C3: from_string splits on every "."; exactly 2 segments give
\* (schema, table) with no db, exactly 3 give (db, schema, table), both of type
\* TABLE; every other segment count fails with RuntimeError.
C3_ParseCount ==
    Returned("from_string") =>
        LET s == call.sql_str
            n == NDots(s)
        IN  IF n = 1
            THEN /\ self.kind = "SqlTable"
                 /\ self.db_name = None
                 /\ self.table_type = TABLE
                 /\ ~HasDot(self.schema_name) /\ ~HasDot(self.table_name)
                 /\ self.schema_name \o <<Dot>> \o self.table_name = s
            ELSE IF n = 2
            THEN /\ self.kind = "SqlTable"
                 /\ self.table_type = TABLE
                 /\ ~HasDot(self.db_name) /\ ~HasDot(self.schema_name)
                 /\ ~HasDot(self.table_name)
                 /\ self.db_name \o <<Dot>> \o self.schema_name \o <<Dot>>
                        \o self.table_name = s
            ELSE self = RuntimeError

C3_Witness ==
    /\ Returned("from_string")
    /\ call.sql_str = <<"a", ".", "b", ".", ".">>
    /\ self = RuntimeError

\* C4 as stated: from_string fails for every string that is not 2 or 3
\* non-empty segments, so no table has an empty schema, db or table name.
C4_RejectsEmptySegments ==
    (Returned("from_string") /\ ~ValidDotted(call.sql_str)) => self = RuntimeError

\* C4 as amended: from_string fails exactly when the number of segments is not
\* 2 or 3; a string of 2 or 3 segments some of which are empty is accepted and
\* yields a table with an empty schema_name, db_name or table_name.
C4_RejectsByCountOnly ==
    Returned("from_string") =>
        /\ self = RuntimeError <=> NDots(call.sql_str) \notin {1, 2}
        /\ (NDots(call.sql_str) \in {1, 2} /\ ~NonEmptySegments(call.sql_str)) =>
              /\ self.kind = "SqlTable"
              /\ EmptyStr \in {self.schema_name, self.table_name, self.db_name}

C4_Witness ==
    /\ Returned("from_string")
    /\ call.sql_str = <<"a", ".">>
    /\ self = Instance(<<"a">>, EmptyStr, None, TABLE)

\* C5: when relation_name contains a ".", from_node_relation has exactly the
\* outcome of from_string(relation_name), whatever the other fields hold.
C5_QualifiedPrecedence ==
    (Returned("from_node_relation") /\ HasDot(call.node_relation.relation_name)) =>
        self = from_string(call.node_relation.relation_name)

C5_Witness ==
    /\ Returned("from_node_relation")
    /\ call.node_relation.relation_name = <<"r", ".", "r", ".", "r">>
    /\ \A f \in Fields \ {"relation_name"} : call.node_relation[f] = FieldStr(f)
    /\ self = Instance(<<"r">>, <<"r">>, <<"r">>, TABLE)

\* C6: when relation_name contains no ".", the resolved database, schema and
\* identifier give the 3-part table if all three are present, else the 2-part
\* table if schema and identifier are, else the unqualified table if identifier
\* is (a database without schema is dropped), else from_string(relation_name).
C6_BestEffortAssembly ==
    (Returned("from_node_relation") /\ ~HasDot(RelationName(call.node_relation))) =>
        LET database == locals.db
            schema == locals.schema
            identifier == locals.identifier
        IN  IF NonEmpty(database) /\ NonEmpty(schema) /\ NonEmpty(identifier)
            THEN self = Instance(schema, identifier, database, TABLE)
            ELSE IF NonEmpty(schema) /\ NonEmpty(identifier)
            THEN self = Instance(schema, identifier, None, TABLE)
            ELSE IF NonEmpty(identifier)
            THEN self = Instance(None, identifier, None, TABLE)
            ELSE self = from_string(RelationName(call.node_relation))

C6_Witness ==
    /\ Returned("from_node_relation")
    /\ NonEmpty(locals.db)
    /\ ~NonEmpty(locals.schema)
    /\ self = Instance(None, <<"b">>, None, TABLE)

\* C7: each field is resolved first-non-empty-wins in a fixed order, an empty
\* string counting as an absent or null field; replacing an empty, null or
\* absent field by another of the three never changes the outcome.
C7_FieldResolution ==
    Returned("from_node_relation") =>
        LET n == call.node_relation IN
        /\ locals.relation_name = RelationName(n)
        /\ SameValue(locals.schema, FirstNonEmpty(<<n.schema_name, n.schema>>))
        /\ SameValue(locals.db,
                     FirstNonEmpty(<<n.database, n.db_name, n.database_name>>))
        /\ SameValue(locals.identifier,
                     FirstNonEmpty(<<n.alias, n.identifier, n.relation_name>>))
        /\ pc = "returned" =>
              \A f \in Fields : n[f] \in Falsy =>
                 \A v \in Falsy : from_node_relation([n EXCEPT ![f] = v]) = self

C7_Witness ==
    /\ Returned("from_node_relation")
    /\ call.node_relation.schema_name = EmptyStr
    /\ call.node_relation.schema = <<"b">>
    /\ call.node_relation.alias = EmptyStr
    /\ call.node_relation.identifier = Absent
    /\ call.node_relation.relation_name = <<"r">>
    /\ self = Instance(<<"b">>, <<"r">>, None, TABLE)

\* C8: comparison is a strict total order over (schema_name, table_name,
\* db_name, table_type) with an absent field before a present one: for two
\* distinct instances exactly one of a < b and b < a holds and neither
\* comparison fails; and the order is transitive.
C8_StrictTotalOrder ==
    (pc = "compared" /\ self # other) =>
        /\ cmp.lt \in {"True", "False"}
        /\ cmp.gt \in {"True", "False"}
        /\ cmp.lt # cmp.gt
        /\ (self.schema_name = None /\ other.schema_name # None) => cmp.lt = "True"
        /\ \A c \in Instances :
              (cmp.lt = "True" /\ Lt(other, c) = "True") => Lt(self, c) = "True"

\* C9: t.sql is the present fields among db_name, schema_name, table_name in
\* that order, each optional one followed by ".", table_name last; table_type
\* does not affect it; an unqualified table renders as table_name alone.
C9_Rendering ==
    pc = "rendered" =>
        /\ rendered = Qualifier(self.db_name) \o Qualifier(self.schema_name)
                          \o self.table_name
        /\ \A ty \in SqlTableType : sql([self EXCEPT !.table_type = ty]) = rendered
        /\ (self.schema_name = None /\ self.db_name = None) =>
              rendered = self.table_name

C9_Witness ==
    /\ pc = "rendered"
    /\ self = Instance(<<"b">>, <<"a">>, <<"a">>, VIEW)
    /\ rendered = <<"a", ".", "b", ".", "a">>

\* C10: from_node_relation fails exactly when relation_name has a "." but not
\* 2 or 3 segments, or has no "." and alias, identifier and relation_name are
\* all absent or empty; the failure is always from_string's RuntimeError,
\* never the ValueError; the final fallback is reached only with an empty
\* relation_name and always fails; a non-empty dot-free relation_name never
\* fails.
C10_FailureCases ==
    Returned("from_node_relation") =>
        LET n == call.node_relation
            rn == RelationName(n)
        IN  /\ self.kind # "SqlTable" <=>
                  \/ HasDot(rn) /\ NDots(rn) \notin {1, 2}
                  \/ ~HasDot(rn) /\ \A f \in {"alias", "identifier", "relation_name"} :
                                       n[f] \in Falsy
            /\ self.kind # "SqlTable" => self = RuntimeError
            /\ locals.line = 75 => (locals.relation_name = EmptyStr /\ self = RuntimeError)
            /\ (rn # EmptyStr /\ ~HasDot(rn)) => self.kind = "SqlTable"

C10_Witness ==
    /\ Returned("from_node_relation")
    /\ locals.line = 75
    /\ NonEmpty(locals.db)
    /\ NonEmpty(locals.schema)
    /\ self = RuntimeError

====
